---- MODULE Spec2Model ----
(***************************************************************************)
(* Pooled JavaScript execution engine of the js plugin (plugin.go).        *)
(*                                                                         *)
(* The model follows rpc.Execute, Plugin.execute, Plugin.acquireVM,        *)
(* Plugin.releaseVM and Plugin.Stop goroutine by goroutine.  Every call    *)
(* is one element of Calls; it owns a main goroutine (pc), a watchdog      *)
(* goroutine (wd) and a script goroutine (script), the two result          *)
(* channels and the execution context.  A Go select with several ready     *)
(* cases is a nondeterministic choice among them; a goroutine blocked in   *)
(* acquireVM's select is resumed by the first communication that becomes   *)
(* possible and takes that case.  A panic that nothing recovers ends the   *)
(* process (crashed).                                                      *)
(*                                                                         *)
(* Steps of one goroutine that touch nothing another goroutine can see     *)
(* in between are taken together.  What no goroutine can read any more     *)
(* (the locals of a call that has returned, a value sent on a channel      *)
(* whose only receiver has left its select) is not kept.                   *)
(*                                                                         *)
(* The custom-metric binding of the sandbox (MetricsBinding) is modelled   *)
(* on its own, in BindSpec: the scripts of concurrent executions, each on  *)
(* its own interpreter with its own binding instance, call                 *)
(* metrics.increment, metrics.gauge and metrics.histogram against the      *)
(* process-wide Prometheus registry.                                       *)
(*                                                                         *)
(* Plugin.Init with Config.InitDefaults and Config.Validate, and the       *)
(* timeout rpc.Execute passes to execute, are modelled in ConfigSpec,      *)
(* which starts before Init with the configuration as an input.            *)
(***************************************************************************)
EXTENDS Integers, Sequences, FiniteSets

\* Number of interpreter handles (cfg.PoolSize, fixed by Serve).
PoolSize == 1

\* Number of execute calls made during the life of the process.
MaxCalls == 2

\* Number of interpreters whose scripts call the metrics binding.
NumBindings == 2

\* Number of binding calls the scripts of one interpreter make.
MaxOps == 2

\* Width of time.Duration.  Go's is 64 bits of nanoseconds; the model keeps
\* two's-complement wrap-around at a width TLC's integers can hold.
DurationBits == 24

\* time.Millisecond, in the unit of Duration (10^6 in Go, scaled with
\* DurationBits so that the default timeout of 30000 ms is far from the
\* wrap-around, as it is in Go).
Millisecond == 100

\* Config.InitDefaults.
DefaultPoolSize == 4
DefaultMaxMemoryMB == 512
DefaultTimeoutMs == 30000

\* Config.Validate.
MinPoolSize == 1
MaxPoolSize == 100
MinTimeoutMs == 100
MinMemoryMB == 64

Handles == 1..PoolSize
Calls   == 1..MaxCalls

\* The nil *otto.Otto, received from the pool channel once it is closed.
NilVM == 0

Labels == {"", "success", "error", "timeout"}

\* No call at all (in places where a call may be named).
NoCall == 0

\* req.RequestID of the request of call k: every request carries its own
\* non-empty identifier.
RequestIDOf(k) == k

\* The zero value of ExecuteResponse, as the rpc server allocates it.
ZeroResponse ==
    [Result |-> "null", DurationMs |-> "zero", Error |-> "", RequestID |-> NoCall,
     err |-> "unset"]

\* The binding instances, one per interpreter.
Bindings == 1..NumBindings

\* The three collector kinds of the binding.
Kinds == {"counter", "gauge", "histogram"}

\* Metric names scripts pass (the part after the js_user namespace).
MetricNames == {"jobs", "hits"}

\* The key sets of the labels objects scripts pass; {} is a call without
\* labels.
LabelSets == {{}, {"status"}}

\* The nil collector.
NilVec == [kind |-> "nil", name |-> "", labelNames |-> {}, by |-> 0]

\* prometheus.NewCounterVec / NewGaugeVec / NewHistogramVec called by
\* binding b: a new collector unlike any other.  Its help string is fixed
\* by kind and name.
NewVec(kind, name, labelNames, b) ==
    [kind |-> kind, name |-> name, labelNames |-> labelNames, by |-> b]

Vecs == { NewVec(kind, name, l, b) :
             kind \in Kinds, name \in MetricNames, l \in LabelSets, b \in Bindings }

\* A binding whose script is not inside a binding call.
NoMetricCall ==
    [at |-> "idle", kind |-> "", name |-> "", labels |-> {}, vec |-> NilVec]

\* The largest number of milliseconds whose Duration does not wrap.
MaxWholeMs == (2^(DurationBits - 1) - 1) \div Millisecond

\* Values of pool_size, max_memory_mb and default_timeout_ms a configuration
\* may carry (0 is an absent key), and of timeout_ms a request may carry.
PoolSizeValues == {-1, 0, 1, 4, 100, 101}
MemoryValues   == {0, 63, 64, 512}
TimeoutValues  == {0, 99, 100, 30000, MaxWholeMs + 1}
TimeoutMsValues == {-1, 0, 1, 5000, MaxWholeMs + 1}

\* p.cfg before Init has assigned it.
NilConfig == [PoolSize |-> 0, MaxMemoryMB |-> 0, DefaultTimeout |-> 0]

\* No call of rpc.Execute has determined a timeout yet.
NoTimeout == [set |-> FALSE, TimeoutMs |-> 0, timeout |-> 0]

VARIABLES
    cfgInput,          \* the Configurer: Has(PluginName), UnmarshalKey succeeds, the keys
    cfg,               \* p.cfg
    initErr,           \* what Plugin.Init returned ("not called" before)
    poolCap,           \* capacity of p.vmPool once Serve has made it (0: no pool)
    lastTimeout        \* req.TimeoutMs and the timeout of the last rpc.Execute

VARIABLES
    registry,          \* prometheus.DefaultRegisterer: the collector registered under each name
    samples,           \* per collector: number of Inc / Set / Observe applied to it
    userCounters,      \* m.userCounters of each binding instance
    userGauges,        \* m.userGauges of each binding instance
    userHistograms,    \* m.userHistograms of each binding instance
    mcall,             \* the binding call each interpreter's script is inside
    ops,               \* number of binding calls the scripts of each interpreter have made
    attempted,         \* per kind and name: number of binding calls made
    ret,               \* how the last binding call of each interpreter ended
    vmPool,            \* p.vmPool: buffered channel of handles (capacity PoolSize)
    poolClosed,        \* close(p.vmPool) has run
    stopCh,            \* close(p.stopCh) has run
    stopPc,            \* lifecycle: Serve running, serving, position of Plugin.Stop
    abandoned,         \* the calls in flight when Stop gave up waiting and closed the pool
    wg,                \* p.wg counter
    crashed,           \* an unrecovered panic has ended the process
    interrupt,         \* vm.Interrupt of each handle: number of queued interrupts (cap 1)
    discarded,         \* handles dropped by releaseVM's stopCh branch
    pc,                \* position of each execute call's main goroutine
    vm,                \* the handle the call obtained from acquireVM
    ctxDone,           \* the caller's ctx is cancelled (read by acquireVM)
    execCtx,           \* execCtx of a running call: "live", or why it is Done
    wd,                \* watchdog goroutine of the call: "idle" when none runs
    script,            \* script goroutine of the call: "idle" when none runs
    resultCh,          \* resultCh of the call (capacity 1)
    errCh,             \* errCh of the call (capacity 1)
    first,             \* history: which of script delivery / execCtx.Done came first
    late,              \* history: the call entered acquireVM after close(p.stopCh)
    resp,              \* *resp of rpc.Execute and the error the call returned
    executionsTotal,   \* js_executions_total by status label
    returned,          \* history: number of returned calls by outcome
    poolAvailable,     \* js_pool_available gauge
    activeExecutions   \* js_active_executions gauge

vars == << vmPool, poolClosed, stopCh, stopPc, abandoned, wg, crashed, interrupt, discarded,
           pc, vm, ctxDone, execCtx, wd, script, resultCh, errCh,
           first, late, resp, executionsTotal, returned, poolAvailable,
           activeExecutions, registry, samples, userCounters, userGauges,
           userHistograms, mcall, ops, attempted, ret,
           cfgInput, cfg, initErr, poolCap, lastTimeout >>

engineVars == << vmPool, poolClosed, stopCh, stopPc, abandoned, wg, crashed, interrupt, discarded,
                 pc, vm, ctxDone, execCtx, wd, script, resultCh, errCh,
                 first, late, resp, executionsTotal, returned, poolAvailable,
                 activeExecutions >>

bindVars == << registry, samples, userCounters, userGauges, userHistograms,
               mcall, ops, attempted, ret >>

cfgVars == << cfgInput, cfg, initErr, poolCap, lastTimeout >>

\* What the engine's goroutines never write.
sideVars == << bindVars, cfgVars >>

poolVars  == << vmPool, poolClosed, discarded >>
stopVars  == << stopCh, stopPc, abandoned >>
gaugeVars == << executionsTotal, returned, poolAvailable, activeExecutions >>
chanVars  == << resultCh, errCh >>
rpcVars   == << late, resp >>

----------------------------------------------------------------------------
(* Helpers *)

Range(s) == { s[i] : i \in 1..Len(s) }

\* execCtx.Done() is closed: the deadline fired, the parent ctx was
\* cancelled, or the deferred cancel() ran (execute has returned).
ExecDone(k) == execCtx[k] \in {"deadline", "parent"} \/ pc[k] = "returned"

\* watchdogDone is closed by the first deferred call of execute to run.
WatchdogDoneClosed(k) == pc[k] = "returned"

\* The call is between a successful acquireVM and its releaseVM.
Holding(k) == pc[k] \in {"granted", "select"}

\* The call is inside execute (between wg.Add and wg.Done).
InFlight(k) == pc[k] \notin {"idle", "rejected", "returned"}

\* The script goroutine of the call is still inside vm.Run.
ScriptRunning(k) == script[k] = "run"

\* The watchdog goroutine of the call has not exited.
WatchdogRunning(k) == wd[k] \in {"wait", "blocked"}

\* The status label an outcome of execute stands for.
OutcomeOf(r) ==
    CASE r = "value"                   -> "success"
      [] r = "execution timeout"       -> "timeout"
      [] r = "failed to acquire VM"    -> "error"
      [] r = "failed to export result" -> "error"
      [] r = "execution error"         -> "error"
      [] OTHER                         -> ""

\* Record which of the script's delivery and execCtx.Done() happened first
\* while execute waits in its outcome select.
NoteFirst(k, what) ==
    [first EXCEPT ![k] = IF @ = "none" /\ pc[k] = "select" THEN what ELSE @]

\* The handle a call refers to is forgotten once the call has returned and
\* both of its goroutines have ended (nothing refers to it any more).
\* The arguments are the positions of the call's goroutines after the step.
ForgetVM(k, pcAfter, scriptAfter, wdAfter) ==
    vm' = [vm EXCEPT ![k] =
              IF pcAfter = "returned" /\ scriptAfter = "idle" /\ wdAfter = "idle"
              THEN NilVM ELSE @]

----------------------------------------------------------------------------
\* Serve has returned: the host starts serving rpc calls (and may call Stop)
\* only then.
Served == stopPc # "starting"

\* The engine and the bindings when Serve starts to fill the pool: the
\* gauges are set by initMetrics, Serve has made the channels, no handle
\* has been created, no call has been made.
Constructed ==
    /\ vmPool = << >>
    /\ poolClosed = FALSE
    /\ stopCh = FALSE
    /\ abandoned = {}
    /\ stopPc = "starting"
    /\ wg = 0
    /\ crashed = FALSE
    /\ interrupt = [h \in Handles |-> 0]
    /\ discarded = {}
    /\ pc = [k \in Calls |-> "idle"]
    /\ vm = [k \in Calls |-> NilVM]
    /\ ctxDone = [k \in Calls |-> FALSE]
    /\ execCtx = [k \in Calls |-> "none"]
    /\ wd = [k \in Calls |-> "idle"]
    /\ script = [k \in Calls |-> "idle"]
    /\ resultCh = [k \in Calls |-> "empty"]
    /\ errCh = [k \in Calls |-> "empty"]
    /\ first = [k \in Calls |-> "none"]
    /\ late = [k \in Calls |-> FALSE]
    /\ resp = [k \in Calls |-> ZeroResponse]
    /\ executionsTotal = [l \in Labels |-> 0]
    /\ returned = [l \in Labels |-> 0]
    /\ poolAvailable = PoolSize
    /\ activeExecutions = 0
    /\ registry = [n \in MetricNames |-> NilVec]
    /\ samples = [c \in Vecs |-> 0]
    /\ userCounters = [b \in Bindings |-> [n \in MetricNames |-> NilVec]]
    /\ userGauges = [b \in Bindings |-> [n \in MetricNames |-> NilVec]]
    /\ userHistograms = [b \in Bindings |-> [n \in MetricNames |-> NilVec]]
    /\ mcall = [b \in Bindings |-> NoMetricCall]
    /\ ops = [b \in Bindings |-> 0]
    /\ attempted = [kind \in Kinds |-> [n \in MetricNames |-> 0]]
    /\ ret = [b \in Bindings |-> "none"]

\* The state in which Serve starts to fill the pool: Init has succeeded
\* with pool_size = PoolSize and the other keys absent.
Init ==
    /\ Constructed
    /\ cfgInput = [Has |-> TRUE, Unmarshals |-> TRUE,
                   keys |-> [PoolSize |-> PoolSize, MaxMemoryMB |-> 0, DefaultTimeout |-> 0]]
    /\ cfg = [PoolSize |-> PoolSize, MaxMemoryMB |-> DefaultMaxMemoryMB,
              DefaultTimeout |-> DefaultTimeoutMs]
    /\ initErr = "nil"
    /\ poolCap = PoolSize
    /\ lastTimeout = NoTimeout

\* An unrecovered panic ends the process: its goroutines, channels and
\* metrics are gone, and nothing runs any more.
Panic ==
    /\ crashed' = TRUE
    /\ UNCHANGED sideVars
    /\ vmPool' = << >>
    /\ poolClosed' = TRUE
    /\ stopCh' = TRUE
    /\ stopPc' = "stopped"
    /\ abandoned' = {}
    /\ wg' = 0
    /\ interrupt' = [h \in Handles |-> 0]
    /\ discarded' = {}
    /\ pc' = [k \in Calls |-> "idle"]
    /\ vm' = [k \in Calls |-> NilVM]
    /\ ctxDone' = [k \in Calls |-> FALSE]
    /\ execCtx' = [k \in Calls |-> "none"]
    /\ wd' = [k \in Calls |-> "idle"]
    /\ script' = [k \in Calls |-> "idle"]
    /\ resultCh' = [k \in Calls |-> "empty"]
    /\ errCh' = [k \in Calls |-> "empty"]
    /\ first' = [k \in Calls |-> "none"]
    /\ late' = [k \in Calls |-> FALSE]
    /\ resp' = [k \in Calls |-> ZeroResponse]
    /\ executionsTotal' = [l \in Labels |-> 0]
    /\ returned' = [l \in Labels |-> 0]
    /\ poolAvailable' = 0
    /\ activeExecutions' = 0

----------------------------------------------------------------------------
(* Plugin.Serve *)

\* One turn of Serve's loop (i = h - 1 < p.vmPoolSize): otto.New(), a fresh
\* Interrupt channel, p.vmPool <- vm.
ServeFill(h) ==
    /\ stopPc = "starting"
    /\ Len(vmPool) = h - 1
    /\ vmPool' = Append(vmPool, h)
    /\ UNCHANGED << poolClosed, discarded, stopVars, wg, crashed, sideVars, interrupt, pc, vm,
                    ctxDone, execCtx, wd, script, chanVars, first, gaugeVars, rpcVars >>

\* Mutant of ServeReturn: Serve returns promptly and leaves the filling of
\* the pool to a goroutine.
ServeReturn_Early ==
    /\ stopPc = "starting"
    /\ stopPc' = "serving"
    /\ UNCHANGED << poolVars, stopCh, abandoned, wg, crashed, sideVars, interrupt, pc,
                    vm, ctxDone, execCtx,
                    wd, script, chanVars, first, gaugeVars, rpcVars >>

\* The loop ends at i = p.vmPoolSize and Serve returns.
ServeReturn ==
    /\ stopPc = "starting"
    /\ Len(vmPool) = PoolSize
    /\ stopPc' = "serving"
    /\ UNCHANGED << poolVars, stopCh, abandoned, wg, crashed, sideVars, interrupt, pc,
                    vm, ctxDone, execCtx,
                    wd, script, chanVars, first, gaugeVars, rpcVars >>

----------------------------------------------------------------------------
(* rpc.Execute *)

\* Mutant of Response: a failure of execute is returned as the error of the
\* call as well.
Response_CallError(k, result, err) ==
    IF err # "nil"
    THEN [ZeroResponse EXCEPT !.DurationMs = "elapsed", !.RequestID = RequestIDOf(k),
                              !.Error = err, !.err = err]
    ELSE [ZeroResponse EXCEPT !.DurationMs = "elapsed", !.RequestID = RequestIDOf(k),
                              !.Result = result, !.err = "nil"]

\* Mutant of Response: a failure of execute is logged but not copied into
\* resp.Error.
Response_DropsError(k, result, err) ==
    IF err # "nil"
    THEN [ZeroResponse EXCEPT !.DurationMs = "elapsed", !.RequestID = RequestIDOf(k),
                              !.err = "nil"]
    ELSE [ZeroResponse EXCEPT !.DurationMs = "elapsed", !.RequestID = RequestIDOf(k),
                              !.Result = result, !.err = "nil"]

\* What rpc.Execute leaves in *resp and returns once execute has returned
\* (result, err): DurationMs and RequestID are set, then Error or Result;
\* the call itself returns nil.
Response(k, result, err) ==
    IF err # "nil"
    THEN [ZeroResponse EXCEPT !.DurationMs = "elapsed", !.RequestID = RequestIDOf(k),
                              !.Error = err, !.err = "nil"]
    ELSE [ZeroResponse EXCEPT !.DurationMs = "elapsed", !.RequestID = RequestIDOf(k),
                              !.Result = result, !.err = "nil"]

\* Mutant of ExecuteEmptyCode: the code is validated only after
\* poolAvailable.Dec().
ExecuteEmptyCode_AfterDec(k) ==
    /\ ~crashed
    /\ Served
    /\ pc[k] = "idle"
    /\ k > 1 => pc[k - 1] # "idle"
    /\ pc' = [pc EXCEPT ![k] = "rejected"]
    /\ resp' = [resp EXCEPT ![k] = [ZeroResponse EXCEPT !.Error = "code is required",
                                                        !.err = "code is required"]]
    /\ poolAvailable' = poolAvailable - 1
    /\ UNCHANGED << poolVars, stopVars, wg, crashed, sideVars, interrupt, vm, ctxDone, execCtx,
                    wd, script, chanVars, first, late, executionsTotal, returned,
                    activeExecutions >>

\* rpc.Execute with req.Code == "": resp.Error is set and the call returns
\* the error "code is required"; execute is not called.
ExecuteEmptyCode(k) ==
    /\ ~crashed
    /\ Served
    /\ pc[k] = "idle"
    /\ k > 1 => pc[k - 1] # "idle"
    /\ pc' = [pc EXCEPT ![k] = "rejected"]
    /\ resp' = [resp EXCEPT ![k] = [ZeroResponse EXCEPT !.Error = "code is required",
                                                        !.err = "code is required"]]
    /\ UNCHANGED << poolVars, stopVars, wg, crashed, sideVars, interrupt, vm, ctxDone, execCtx,
                    wd, script, chanVars, first, late, gaugeVars >>

----------------------------------------------------------------------------
(* Plugin.execute: main goroutine *)

\* Mutant of Begin: the timeout context is derived on entry, before
\* acquireVM.
Begin_StartsTimer(k) ==
    /\ ~crashed
    /\ Served
    /\ pc[k] = "idle"
    /\ k > 1 => pc[k - 1] # "idle"
    /\ pc' = [pc EXCEPT ![k] = "acquire"]
    /\ execCtx' = [execCtx EXCEPT ![k] = "live"]
    /\ late' = [late EXCEPT ![k] = stopCh]
    /\ wg' = wg + 1
    /\ activeExecutions' = activeExecutions + 1
    /\ poolAvailable' = poolAvailable - 1
    /\ UNCHANGED << poolVars, stopVars, crashed, sideVars, interrupt, vm, ctxDone,
                    wd, script, chanVars, first, resp, executionsTotal, returned >>

\* rpc.Execute with non-empty code calls execute, which is entered:
\* wg.Add(1), codeSize.Observe, activeExecutions.Inc, poolAvailable.Dec; the
\* call then stands in front of acquireVM's select.
\* Calls are numbered in the order in which they enter.
Begin(k) ==
    /\ ~crashed
    /\ Served
    /\ pc[k] = "idle"
    /\ k > 1 => pc[k - 1] # "idle"
    /\ pc' = [pc EXCEPT ![k] = "acquire"]
    /\ late' = [late EXCEPT ![k] = stopCh]
    /\ wg' = wg + 1
    /\ activeExecutions' = activeExecutions + 1
    /\ poolAvailable' = poolAvailable - 1
    /\ UNCHANGED << poolVars, stopVars, crashed, sideVars, interrupt, vm, ctxDone, execCtx,
                    wd, script, chanVars, first, resp, executionsTotal, returned >>

\* acquireVM's select finds no case ready (the pool channel is empty and
\* open, ctx is not Done, stopCh is open): the goroutine blocks, queued as a
\* receiver on p.vmPool.
Park(k) ==
    /\ ~crashed
    /\ pc[k] = "acquire"
    /\ vmPool = << >> /\ ~poolClosed
    /\ ~ctxDone[k]
    /\ ~stopCh
    /\ pc' = [pc EXCEPT ![k] = "parked"]
    /\ UNCHANGED << poolVars, stopVars, wg, crashed, sideVars, interrupt, vm, ctxDone, execCtx,
                    wd, script, chanVars, first, gaugeVars, rpcVars >>

\* The callers blocked in acquireVM's select that nothing has resumed yet: a
\* send on p.vmPool is handed to one of them.
Parked == { j \in Calls : pc[j] = "parked" /\ ~ctxDone[j] /\ ~stopCh }

\* Mutant of ReceiveVM: the receive hands out the head of the channel but
\* leaves it in the buffer.
ReceiveVM_NoRemove(h) ==
    /\ vmPool # << >>
    /\ h = Head(vmPool)
    /\ vmPool' = vmPool

\* Mutant of ReceiveVM: the receive never sees the last buffered handle.
ReceiveVM_SkipsLast(h) ==
    /\ Len(vmPool) > 1
    /\ h = Head(vmPool)
    /\ vmPool' = Tail(vmPool)

\* acquireVM, case vm := <-p.vmPool: the handle at the head of the channel,
\* or nil from the closed and drained channel.
ReceiveVM(h) ==
    \/ /\ vmPool # << >>
       /\ h = Head(vmPool)
       /\ vmPool' = Tail(vmPool)
    \/ /\ vmPool = << >>
       /\ poolClosed
       /\ h = NilVM
       /\ vmPool' = vmPool

\* acquireVM has returned handle h; execute registers the deferred release,
\* derives execCtx from ctx with the timeout, makes the channels and starts
\* the watchdog and the script goroutines.  It then waits in the outcome
\* select.
Proceed(k, h) ==
    /\ vm' = [vm EXCEPT ![k] = h]
    /\ execCtx' = [execCtx EXCEPT ![k] = IF ctxDone[k] THEN "parent" ELSE "live"]
    /\ first' = [first EXCEPT ![k] = IF ctxDone[k] THEN "parent" ELSE "none"]
    /\ ctxDone' = [ctxDone EXCEPT ![k] = FALSE]
    /\ late' = [late EXCEPT ![k] = FALSE]
    /\ wd' = [wd EXCEPT ![k] = "wait"]
    /\ script' = [script EXCEPT ![k] = "run"]
    /\ pc' = [pc EXCEPT ![k] = "select"]
    /\ UNCHANGED << poolClosed, discarded, stopVars, wg, crashed, sideVars, interrupt,
                    chanVars, resp, gaugeVars >>

\* acquireVM's select takes case vm := <-p.vmPool, which is ready.
AcquireVM(k) ==
    /\ ~crashed
    /\ pc[k] = "acquire"
    /\ \E h \in Handles \cup {NilVM} :
          /\ ReceiveVM(h)
          /\ Proceed(k, h)

\* The blocked caller was resumed by a send on p.vmPool: acquireVM returns
\* the handle it was handed.
AcquireGranted(k) ==
    /\ ~crashed
    /\ pc[k] = "granted"
    /\ UNCHANGED vmPool
    /\ Proceed(k, vm[k])

\* Mutant of RecordedLabel: the timeout case returns without setting status.
RecordedLabel_Unset(st) == IF st = "timeout" THEN "" ELSE st

\* The status label the deferred recording counts.
RecordedLabel(st) == st

\* The deferred calls that end every call of execute: activeExecutions.Dec(),
\* the status recording (executionsTotal.WithLabelValues(status).Inc()) and
\* wg.Done(); rpc.Execute then fills the response.  st is the local variable
\* status, r what execute returns, g the blocked caller the released handle
\* was handed to (NoCall when there is none).
Returns(k, st, r, g) ==
    /\ activeExecutions' = activeExecutions - 1
    /\ executionsTotal' = [executionsTotal EXCEPT ![RecordedLabel(st)] = @ + 1]
    /\ returned' = [returned EXCEPT ![OutcomeOf(r)] = @ + 1]
    /\ wg' = wg - 1
    /\ pc' = [j \in Calls |-> IF j = k THEN "returned"
                               ELSE IF j = g THEN "granted" ELSE pc[j]]
    /\ vm' = [j \in Calls |->
                 IF j = g THEN vm[k]
                 ELSE IF j = k /\ script[k] = "idle" /\ wd[k] = "idle" THEN NilVM
                 ELSE vm[j]]
    /\ first' = [first EXCEPT ![k] = "none"]
    /\ ctxDone' = [ctxDone EXCEPT ![k] = FALSE]
    /\ late' = [late EXCEPT ![k] = FALSE]
    /\ resp' = [resp EXCEPT ![k] =
                   IF r = "value" THEN Response(k, "value", "nil")
                                  ELSE Response(k, "null", r)]

\* Mutant of AcquireFail: the failure path returns without
\* poolAvailable.Inc().
AcquireFail_NoInc(k) ==
    /\ ~crashed
    /\ pc[k] \in {"acquire", "parked"}
    /\ ctxDone[k] \/ stopCh
    /\ poolAvailable' = poolAvailable
    /\ Returns(k, "error", "failed to acquire VM", NoCall)
    /\ UNCHANGED << poolVars, stopVars, crashed, sideVars, interrupt, execCtx,
                    wd, script, chanVars >>

\* Mutant of AcquireFail: acquireVM's select has no case <-p.stopCh.
AcquireFail_CtxOnly(k) ==
    /\ ~crashed
    /\ pc[k] \in {"acquire", "parked"}
    /\ ctxDone[k]
    /\ poolAvailable' = poolAvailable + 1
    /\ Returns(k, "error", "failed to acquire VM", NoCall)
    /\ UNCHANGED << poolVars, stopVars, crashed, sideVars, interrupt, execCtx,
                    wd, script, chanVars >>

\* acquireVM fails (case <-ctx.Done() or case <-p.stopCh, taken by the select
\* or resuming the blocked caller); execute sets status = "error",
\* poolAvailable.Inc() and returns "failed to acquire VM".
AcquireFail(k) ==
    /\ ~crashed
    /\ pc[k] \in {"acquire", "parked"}
    /\ ctxDone[k] \/ stopCh
    /\ poolAvailable' = poolAvailable + 1
    /\ Returns(k, "error", "failed to acquire VM", NoCall)
    /\ UNCHANGED << poolVars, stopVars, crashed, sideVars, interrupt, execCtx,
                    wd, script, chanVars >>

\* releaseVM, case p.vmPool <- vm, with no receiver blocked on the channel:
\* the handle goes into the buffer.
SendVM(h) ==
    /\ ~poolClosed
    /\ Len(vmPool) < PoolSize
    /\ Parked = {}
    /\ vmPool' = Append(vmPool, h)
    /\ UNCHANGED discarded

\* releaseVM, case p.vmPool <- vm, with caller g blocked on the channel: the
\* handle is handed to g, which is resumed.
HandVM(h, g) ==
    /\ ~poolClosed
    /\ g \in Parked
    /\ UNCHANGED << vmPool, discarded >>

\* Mutant of DiscardVM: the stopCh branch drops the handle and the send
\* case puts it into the pool channel as well.
DiscardVM_StillPooled(h) ==
    /\ stopCh
    /\ discarded' = IF h = NilVM THEN discarded ELSE discarded \cup {h}
    /\ vmPool' = Append(vmPool, h)

\* releaseVM, case <-p.stopCh: the handle is not returned to the pool.
DiscardVM(h) ==
    /\ stopCh
    /\ discarded' = IF h = NilVM THEN discarded ELSE discarded \cup {h}
    /\ UNCHANGED vmPool

\* Mutant of ReleaseVM: the handle is dropped instead of being sent back.
ReleaseVM_Leak(h) == UNCHANGED << vmPool, discarded >>

\* releaseVM(vm) when no caller is blocked on the pool channel: whichever
\* ready case of its select is taken.
ReleaseVM(h) == SendVM(h) \/ DiscardVM(h)

\* A case of the outcome select returns: status and the result are set, then
\* the deferred calls run: close(watchdogDone), cancel(), releaseVM(vm) with
\* poolAvailable.Inc(), and those of Returns.  None of them blocks.
Outcome(k, st, r) ==
    /\ \E g \in Calls \cup {NoCall} :
          /\ IF g = NoCall THEN ReleaseVM(vm[k]) ELSE HandVM(vm[k], g)
          /\ Returns(k, st, r, g)
    /\ execCtx' = [execCtx EXCEPT ![k] = "none"]
    /\ resultCh' = [resultCh EXCEPT ![k] = "empty"]
    /\ errCh' = [errCh EXCEPT ![k] = "empty"]
    /\ poolAvailable' = poolAvailable + 1
    /\ UNCHANGED << poolClosed, stopVars, crashed, sideVars, interrupt, wd, script >>

\* The outcome select, case value := <-resultCh.  otto's Value.Export
\* converts every value and its error is always nil, so the case returns
\* the exported value with status "success".
SelectResult(k) ==
    /\ ~crashed
    /\ pc[k] = "select"
    /\ resultCh[k] # "empty"
    /\ Outcome(k, "success", "value")

\* The outcome select, case err := <-errCh.
SelectErr(k) ==
    /\ ~crashed
    /\ pc[k] = "select"
    /\ errCh[k] # "empty"
    /\ Outcome(k, "error", "execution error")

\* The outcome select, case <-execCtx.Done().
SelectTimeout(k) ==
    /\ ~crashed
    /\ pc[k] = "select"
    /\ ExecDone(k)
    /\ Outcome(k, "timeout", "execution timeout")

\* A case of the outcome select is ready and the deferred releaseVM runs
\* after close(p.vmPool): the send case of its select is ready as well as
\* the stopCh case, and a send on a closed channel panics.
ReleasePanic(k) ==
    /\ ~crashed
    /\ pc[k] = "select"
    /\ resultCh[k] # "empty" \/ errCh[k] # "empty" \/ ExecDone(k)
    /\ poolClosed
    /\ Panic

----------------------------------------------------------------------------
(* Plugin.execute: the script goroutine (go func() { ... vm.Run(script) ... }) *)

\* A send on one of the call's channels (capacity 1, a single send per call).
\* The value is kept while execute can still receive it.
Deliver(k, ch, v) ==
    IF pc[k] = "select" THEN [ch EXCEPT ![k] = v] ELSE ch

\* The script goroutine ends after its single send.
ScriptEnds(k, what) ==
    /\ script' = [script EXCEPT ![k] = "idle"]
    /\ first' = NoteFirst(k, what)
    /\ ForgetVM(k, pc[k], "idle", wd[k])
    /\ UNCHANGED << poolVars, stopVars, wg, crashed, sideVars, pc, ctxDone, execCtx, wd,
                    gaugeVars, rpcVars >>

\* vm.Run returns a value: resultCh <- value.
ScriptReturn(k) ==
    /\ ~crashed
    /\ script[k] = "run"
    /\ vm[k] # NilVM
    /\ resultCh' = Deliver(k, resultCh, "value")
    /\ ScriptEnds(k, "result")
    /\ UNCHANGED << errCh, interrupt >>

\* vm.Run returns an error (the script throws): errCh <- err.
ScriptThrow(k) ==
    /\ ~crashed
    /\ script[k] = "run"
    /\ vm[k] # NilVM
    /\ errCh' = Deliver(k, errCh, "throw")
    /\ ScriptEnds(k, "fault")
    /\ UNCHANGED << resultCh, interrupt >>

\* The interpreter reaches a check-point with an interrupt queued on its
\* handle: it takes the function from vm.Interrupt and calls it; the panic
\* is recovered by the deferred function: errCh <- "execution panic: ...".
ScriptInterrupted(k) ==
    /\ ~crashed
    /\ script[k] = "run"
    /\ vm[k] # NilVM
    /\ interrupt[vm[k]] > 0
    /\ interrupt' = [interrupt EXCEPT ![vm[k]] = @ - 1]
    /\ errCh' = Deliver(k, errCh, "panic: execution timeout")
    /\ ScriptEnds(k, "fault")
    /\ UNCHANGED resultCh

\* vm.Run on the nil handle dereferences nil; the panic is recovered by the
\* deferred function: errCh <- "execution panic: ...".
ScriptNilVM(k) ==
    /\ ~crashed
    /\ script[k] = "run"
    /\ vm[k] = NilVM
    /\ errCh' = Deliver(k, errCh, "panic: nil dereference")
    /\ ScriptEnds(k, "fault")
    /\ UNCHANGED << resultCh, interrupt >>

----------------------------------------------------------------------------
(* Plugin.execute: the watchdog goroutine *)

\* The watchdog goroutine ends.
WatchdogEnds(k) ==
    /\ wd' = [wd EXCEPT ![k] = "idle"]
    /\ ForgetVM(k, pc[k], script[k], "idle")
    /\ UNCHANGED << poolVars, stopVars, wg, pc, ctxDone, execCtx, script,
                    chanVars, first, gaugeVars, rpcVars >>

\* The send vm.Interrupt <- func() { panic("execution timeout") }.
InjectInterrupt(k) ==
    /\ interrupt' = [interrupt EXCEPT ![vm[k]] = @ + 1]
    /\ WatchdogEnds(k)

\* case <-execCtx.Done() on the nil handle: evaluating vm.Interrupt panics
\* in a goroutine that recovers nothing.
WatchdogNilVM(k) ==
    /\ ~crashed
    /\ wd[k] = "wait"
    /\ ExecDone(k)
    /\ vm[k] = NilVM
    /\ Panic

\* case <-execCtx.Done(): the watchdog sends the interrupt at once when the
\* handle's interrupt channel has room.
WatchdogFire(k) ==
    /\ ~crashed
    /\ wd[k] = "wait"
    /\ ExecDone(k)
    /\ vm[k] # NilVM
    /\ interrupt[vm[k]] = 0
    /\ InjectInterrupt(k)
    /\ UNCHANGED << crashed, sideVars >>

\* case <-execCtx.Done() while the handle's interrupt channel is full: the
\* watchdog blocks in the send.
WatchdogBlock(k) ==
    /\ ~crashed
    /\ wd[k] = "wait"
    /\ ExecDone(k)
    /\ vm[k] # NilVM
    /\ interrupt[vm[k]] > 0
    /\ wd' = [wd EXCEPT ![k] = "blocked"]
    /\ UNCHANGED << poolVars, stopVars, wg, crashed, sideVars, interrupt, pc, vm, ctxDone,
                    execCtx, script, chanVars, first, gaugeVars, rpcVars >>

\* The blocked send completes once the interrupt channel has room.
WatchdogUnblock(k) ==
    /\ ~crashed
    /\ wd[k] = "blocked"
    /\ interrupt[vm[k]] = 0
    /\ InjectInterrupt(k)
    /\ UNCHANGED << crashed, sideVars >>

\* case <-watchdogDone.
WatchdogExit(k) ==
    /\ ~crashed
    /\ wd[k] = "wait"
    /\ WatchdogDoneClosed(k)
    /\ WatchdogEnds(k)
    /\ UNCHANGED << crashed, sideVars, interrupt >>

----------------------------------------------------------------------------
(* Contexts *)

\* The timer of context.WithTimeout(ctx, timeout) fires.
DeadlineFires(k) ==
    /\ ~crashed
    /\ execCtx[k] = "live"
    /\ execCtx' = [execCtx EXCEPT ![k] = "deadline"]
    /\ first' = NoteFirst(k, "deadline")
    /\ UNCHANGED << poolVars, stopVars, wg, crashed, sideVars, interrupt, pc, vm, ctxDone,
                    wd, script, chanVars, gaugeVars, rpcVars >>

\* The caller cancels the ctx it passed to execute while acquireVM waits on it.
CtxCancelAcquire(k) ==
    /\ ~crashed
    /\ pc[k] \in {"acquire", "parked", "granted"}
    /\ ~ctxDone[k]
    /\ ctxDone' = [ctxDone EXCEPT ![k] = TRUE]
    /\ UNCHANGED << poolVars, stopVars, wg, crashed, sideVars, interrupt, pc, vm, execCtx,
                    wd, script, chanVars, first, gaugeVars, rpcVars >>

\* The caller cancels the ctx while the execution runs; execCtx is derived
\* from it and becomes Done with it.
CtxCancelRunning(k) ==
    /\ ~crashed
    /\ execCtx[k] = "live"
    /\ execCtx' = [execCtx EXCEPT ![k] = "parent"]
    /\ first' = NoteFirst(k, "parent")
    /\ UNCHANGED << poolVars, stopVars, wg, crashed, sideVars, interrupt, pc, vm, ctxDone,
                    wd, script, chanVars, gaugeVars, rpcVars >>

----------------------------------------------------------------------------
(* Plugin.Stop *)

\* close(p.stopCh); Stop then waits for p.wg or for its ctx.
StopSignal ==
    /\ ~crashed
    /\ stopPc = "serving"
    /\ stopCh' = TRUE
    /\ stopPc' = "waiting"
    /\ UNCHANGED abandoned
    /\ UNCHANGED << poolVars, wg, crashed, sideVars, interrupt, pc, vm, ctxDone, execCtx,
                    wd, script, chanVars, first, gaugeVars, rpcVars >>

\* The ctx passed to Stop expires (the grace period has elapsed).
StopDeadline ==
    /\ ~crashed
    /\ stopPc = "waiting"
    /\ stopPc' = "expired"
    /\ UNCHANGED << poolVars, stopCh, abandoned, wg, crashed, sideVars, interrupt, pc,
                    vm, ctxDone, execCtx,
                    wd, script, chanVars, first, gaugeVars, rpcVars >>

\* Mutant of StopDrained: Stop closes the pool without waiting for p.wg.
StopDrained_NoWait ==
    /\ ~crashed
    /\ stopPc \in {"waiting", "expired"}
    /\ poolClosed' = TRUE
    /\ stopPc' = "stopped"
    /\ UNCHANGED << vmPool, discarded, stopCh, abandoned, wg, crashed, sideVars,
                    interrupt, pc, vm, ctxDone,
                    execCtx, wd, script, chanVars, first, gaugeVars, rpcVars >>

\* case <-done: p.wg.Wait() has returned; then close(p.vmPool), and Stop
\* returns.
StopDrained ==
    /\ ~crashed
    /\ stopPc \in {"waiting", "expired"}
    /\ wg = 0
    /\ poolClosed' = TRUE
    /\ stopPc' = "stopped"
    /\ UNCHANGED << vmPool, discarded, stopCh, abandoned, wg, crashed, sideVars,
                    interrupt, pc, vm, ctxDone,
                    execCtx, wd, script, chanVars, first, gaugeVars, rpcVars >>

\* Mutant of StopTimeout: Stop's select has no case <-ctx.Done().
StopTimeout_Never ==
    /\ FALSE
    /\ UNCHANGED vars

\* case <-ctx.Done(): the grace period of Stop has elapsed; then
\* close(p.vmPool), and Stop returns.
StopTimeout ==
    /\ ~crashed
    /\ stopPc = "expired"
    /\ poolClosed' = TRUE
    /\ stopPc' = "stopped"
    /\ abandoned' = { k \in Calls : InFlight(k) }
    /\ UNCHANGED << vmPool, discarded, stopCh, wg, crashed, sideVars, interrupt, pc, vm, ctxDone,
                    execCtx, wd, script, chanVars, first, gaugeVars, rpcVars >>

----------------------------------------------------------------------------
Next ==
    \/ \E h \in Handles : ServeFill(h)
    \/ ServeReturn
    \/ \E k \in Calls : ExecuteEmptyCode(k)
    \/ \E k \in Calls : Begin(k)
    \/ \E k \in Calls : Park(k)
    \/ \E k \in Calls : AcquireVM(k)
    \/ \E k \in Calls : AcquireGranted(k)
    \/ \E k \in Calls : AcquireFail(k)
    \/ \E k \in Calls : SelectResult(k)
    \/ \E k \in Calls : SelectErr(k)
    \/ \E k \in Calls : SelectTimeout(k)
    \/ \E k \in Calls : ReleasePanic(k)
    \/ \E k \in Calls : ScriptReturn(k)
    \/ \E k \in Calls : ScriptThrow(k)
    \/ \E k \in Calls : ScriptInterrupted(k)
    \/ \E k \in Calls : ScriptNilVM(k)
    \/ \E k \in Calls : WatchdogNilVM(k)
    \/ \E k \in Calls : WatchdogFire(k)
    \/ \E k \in Calls : WatchdogBlock(k)
    \/ \E k \in Calls : WatchdogUnblock(k)
    \/ \E k \in Calls : WatchdogExit(k)
    \/ \E k \in Calls : DeadlineFires(k)
    \/ \E k \in Calls : CtxCancelAcquire(k)
    \/ \E k \in Calls : CtxCancelRunning(k)
    \/ StopSignal
    \/ StopDeadline
    \/ StopDrained
    \/ StopTimeout

Spec == Init /\ [][Next]_vars

\* What the Go scheduler and the timers guarantee: a goroutine whose select
\* has a ready case runs, and the timer of a live execCtx fires.  Nothing
\* makes a script return, throw or reach a check-point.
MainStep(k) ==
    \/ Park(k) \/ AcquireVM(k) \/ AcquireGranted(k) \/ AcquireFail(k)
    \/ SelectResult(k) \/ SelectErr(k) \/ SelectTimeout(k) \/ ReleasePanic(k)

WatchdogStep(k) ==
    \/ WatchdogNilVM(k) \/ WatchdogFire(k) \/ WatchdogBlock(k)
    \/ WatchdogUnblock(k) \/ WatchdogExit(k)

Fairness ==
    \A k \in Calls :
        /\ WF_vars(MainStep(k))
        /\ WF_vars(WatchdogStep(k))
        /\ WF_vars(DeadlineFires(k))

FairSpec == Init /\ [][Next]_vars /\ Fairness

\* What Stop needs to return: the ctx it was given carries the grace period,
\* which expires, and Stop's select runs when a case of it is ready.  Nothing
\* is assumed about the executions.
StopFairness ==
    /\ WF_vars(StopDeadline)
    /\ WF_vars(StopDrained)
    /\ WF_vars(StopTimeout)

StopFairSpec == Init /\ [][Next]_vars /\ StopFairness

-----------------------------------------------------------------------------
(* MetricsBinding: metrics.increment / gauge / histogram *)

\* The map of binding b that caches the collectors of a kind.
UserMap(kind, b) ==
    CASE kind = "counter" -> userCounters[b]
      [] kind = "gauge"   -> userGauges[b]
      [] OTHER            -> userHistograms[b]

\* m.userCounters[name] = c (or the map of the collector's kind).
Store(b, kind, name, c) ==
    /\ userCounters' = IF c # NilVec /\ kind = "counter"
                       THEN [userCounters EXCEPT ![b][name] = c] ELSE userCounters
    /\ userGauges' = IF c # NilVec /\ kind = "gauge"
                     THEN [userGauges EXCEPT ![b][name] = c] ELSE userGauges
    /\ userHistograms' = IF c # NilVec /\ kind = "histogram"
                         THEN [userHistograms EXCEPT ![b][name] = c] ELSE userHistograms

\* prometheus.Register(c) against the registry reg.  The descriptor of a
\* collector is identified by its fully-qualified name; its help string
\* (fixed by kind and name) and its label names must agree with the
\* descriptor already registered under that name, else Register returns a
\* plain error; when they agree it returns AlreadyRegisteredError carrying
\* the existing collector.
Register(reg, c) ==
    LET existing == reg[c.name] IN
    IF existing = NilVec
    THEN [err |-> "nil", ExistingCollector |-> NilVec]
    ELSE IF existing.kind = c.kind /\ existing.labelNames = c.labelNames
         THEN [err |-> "AlreadyRegisteredError", ExistingCollector |-> existing]
         ELSE [err |-> "inconsistent descriptor", ExistingCollector |-> NilVec]

\* What getOrCreateCounter / Gauge / Histogram returns after Register.
Registered(reg, c) ==
    LET r == Register(reg, c) IN
    CASE r.err = "nil"                    -> c
      [] r.err = "AlreadyRegisteredError" -> r.ExistingCollector
      [] OTHER                            -> NilVec

\* A script on interpreter b calls metrics.increment(name, labels),
\* metrics.gauge(name, v, labels) or metrics.histogram(name, v, labels):
\* extractLabels, then the map lookup of getOrCreate*; on a miss the new
\* collector is built.
GetOrCreateLookup(b, kind, name, labels) ==
    /\ mcall[b].at = "idle"
    /\ ops[b] < MaxOps
    /\ ops' = [ops EXCEPT ![b] = @ + 1]
    /\ attempted' = [attempted EXCEPT ![kind][name] = @ + 1]
    /\ mcall' = [mcall EXCEPT ![b] =
                    IF UserMap(kind, b)[name] # NilVec
                    THEN [at |-> "with", kind |-> kind, name |-> name,
                          labels |-> labels, vec |-> UserMap(kind, b)[name]]
                    ELSE [at |-> "register", kind |-> kind, name |-> name,
                          labels |-> labels, vec |-> NewVec(kind, name, labels, b)]]
    /\ UNCHANGED << registry, samples, userCounters, userGauges, userHistograms, ret >>
    /\ UNCHANGED << engineVars, cfgVars >>

\* prometheus.Register(counter) and what getOrCreate* does with its result.
GetOrCreateRegister(b) ==
    /\ mcall[b].at = "register"
    /\ LET c == mcall[b].vec
           got == Registered(registry, c)
       IN /\ registry' = IF Register(registry, c).err = "nil"
                         THEN [registry EXCEPT ![c.name] = c] ELSE registry
          /\ Store(b, c.kind, c.name, got)
          /\ mcall' = [mcall EXCEPT ![b].at = "with", ![b].vec = got]
    /\ UNCHANGED << samples, ops, attempted, ret >>
    /\ UNCHANGED << engineVars, cfgVars >>

\* if counter == nil { return undefined }; counter.With(labels).Inc() (or
\* Set, Observe).  With panics when the keys of labels are not the label
\* names of the collector; the panic unwinds out of the script.
WithLabels(b) ==
    /\ mcall[b].at = "with"
    /\ LET c == mcall[b].vec IN
          /\ ret' = [ret EXCEPT ![b] =
                        CASE c = NilVec                     -> "nil"
                          [] c.labelNames # mcall[b].labels -> "panic"
                          [] OTHER                          -> "applied"]
          /\ samples' = IF c # NilVec /\ c.labelNames = mcall[b].labels
                        THEN [samples EXCEPT ![c] = @ + 1] ELSE samples
    /\ mcall' = [mcall EXCEPT ![b] = NoMetricCall]
    /\ UNCHANGED << registry, userCounters, userGauges, userHistograms, ops, attempted >>
    /\ UNCHANGED << engineVars, cfgVars >>

BindNext ==
    \/ \E b \in Bindings, kind \in Kinds, name \in MetricNames, labels \in LabelSets :
          GetOrCreateLookup(b, kind, name, labels)
    \/ \E b \in Bindings : GetOrCreateRegister(b)
    \/ \E b \in Bindings : WithLabels(b)

BindSpec == Init /\ [][BindNext]_vars

-----------------------------------------------------------------------------
(* Plugin.Init, Config.InitDefaults, Config.Validate, timeout of rpc.Execute *)

\* Config.InitDefaults: a zero field gets its default.
InitDefaults(c) ==
    [PoolSize       |-> IF c.PoolSize = 0 THEN DefaultPoolSize ELSE c.PoolSize,
     MaxMemoryMB    |-> IF c.MaxMemoryMB = 0 THEN DefaultMaxMemoryMB ELSE c.MaxMemoryMB,
     DefaultTimeout |-> IF c.DefaultTimeout = 0 THEN DefaultTimeoutMs ELSE c.DefaultTimeout]

\* Mutant of Validate: the check pool_size > 100 is missing.
Validate_NoUpper(c) ==
    CASE c.PoolSize < MinPoolSize        -> "pool_size must be at least 1"
      [] c.DefaultTimeout < MinTimeoutMs -> "default_timeout_ms must be at least 100ms"
      [] c.MaxMemoryMB < MinMemoryMB     -> "max_memory_mb must be at least 64MB"
      [] OTHER                           -> "nil"

\* Config.Validate: the first check that fails, or nil.
Validate(c) ==
    CASE c.PoolSize < MinPoolSize        -> "pool_size must be at least 1"
      [] c.PoolSize > MaxPoolSize        -> "pool_size cannot exceed 100"
      [] c.DefaultTimeout < MinTimeoutMs -> "default_timeout_ms must be at least 100ms"
      [] c.MaxMemoryMB < MinMemoryMB     -> "max_memory_mb must be at least 64MB"
      [] OTHER                           -> "nil"

\* The state before Plugin.Init is called.
ConfigInit ==
    /\ Constructed
    /\ cfgInput = [Has |-> FALSE, Unmarshals |-> FALSE, keys |-> NilConfig]
    /\ cfg = NilConfig
    /\ initErr = "not called"
    /\ poolCap = 0
    /\ lastTimeout = NoTimeout

\* Plugin.Init against a Configurer that has the plugin section or not,
\* whose UnmarshalKey succeeds or not, and that holds the given keys.
PluginInit(has, unmarshals, keys) ==
    /\ initErr = "not called"
    /\ cfgInput' = [Has |-> has, Unmarshals |-> unmarshals, keys |-> keys]
    /\ cfg' = IF ~has THEN cfg
              ELSE IF ~unmarshals THEN NilConfig
              ELSE InitDefaults(keys)
    /\ initErr' = IF ~has THEN "plugin not configured"
                  ELSE IF ~unmarshals THEN "failed to unmarshal config"
                  ELSE IF Validate(InitDefaults(keys)) # "nil" THEN "config validation failed"
                  ELSE "nil"
    /\ UNCHANGED << poolCap, lastTimeout, engineVars, bindVars >>

\* Plugin.Serve makes the pool channel; the container calls Serve only on a
\* plugin whose Init returned nil.
ConfigServe ==
    /\ initErr = "nil"
    /\ poolCap = 0
    /\ poolCap' = cfg.PoolSize
    /\ UNCHANGED << cfgInput, cfg, initErr, lastTimeout, engineVars, bindVars >>

\* A value of time.Duration: the integer x in two's complement of
\* DurationBits bits.
Duration(x) ==
    LET m == 2^DurationBits
        r == x % m
    IN IF r >= m \div 2 THEN r - m ELSE r

\* rpc.Execute, "Determine timeout".
TimeoutOf(ms) ==
    IF ms > 0 THEN Duration(Duration(ms) * Millisecond)
              ELSE Duration(Duration(cfg.DefaultTimeout) * Millisecond)

\* rpc.Execute is called with req.TimeoutMs = ms on the served plugin and
\* determines the timeout it passes to execute.
DetermineTimeout(ms) ==
    /\ poolCap > 0
    /\ lastTimeout' = [set |-> TRUE, TimeoutMs |-> ms, timeout |-> TimeoutOf(ms)]
    /\ UNCHANGED << cfgInput, cfg, initErr, poolCap, engineVars, bindVars >>

ConfigNext ==
    \/ \E has \in BOOLEAN, unmarshals \in BOOLEAN,
          keys \in [PoolSize : PoolSizeValues, MaxMemoryMB : MemoryValues,
                    DefaultTimeout : TimeoutValues] :
          PluginInit(has, unmarshals, keys)
    \/ ConfigServe
    \/ \E ms \in TimeoutMsValues : DetermineTimeout(ms)

ConfigSpec == ConfigInit /\ [][ConfigNext]_vars

----------------------------------------------------------------------------
(* Properties *)

\* The calls that are between a successful acquireVM and their releaseVM.
Holders == { k \in Calls : Holding(k) }

\* The calls waiting in acquireVM.
Waiting == { k \in Calls : pc[k] \in {"acquire", "parked"} }

\* The script goroutines running on handle h.
ScriptsOn(h) == { k \in Calls : ScriptRunning(k) /\ vm[k] = h }

\* The step by which execute call k leaves its outcome select and returns.
Returning(k) == pc[k] = "select" /\ pc'[k] = "returned"

\* C1: in every reachable state at most one script goroutine is running on
\* each handle, counting the script goroutines of executions that have
\* already returned a timeout.
C1_OneScriptPerHandle ==
    \A h \in Handles : Cardinality(ScriptsOn(h)) <= 1

\* C2: a step of execute that puts its handle back into the pool channel is
\* taken only when the script goroutine it started on that handle has ended.
C2_ReleaseAfterTermination ==
    [][\A k \in Calls :
          (Returning(k) /\ vm[k] # NilVM /\ vm[k] \in Range(vmPool'))
              => ~ScriptRunning(k)]_vars

\* C3: once Serve has returned and while shutdown has not been signalled,
\* the handles in the pool plus the handles held by executions are exactly
\* PoolSize.
C3_PoolConservation ==
    (Served /\ ~stopCh) => Len(vmPool) + Cardinality(Holders) = PoolSize

\* C3 witness: before shutdown, one call has returned its handle and
\* another call holds a handle.
C3_Witness ==
    /\ ~stopCh /\ ~crashed
    /\ \E k \in Calls : Holding(k)
    /\ \E j \in Calls : pc[j] = "returned" /\ returned["error"] = 0

\* C4: at most PoolSize executions are between a successful acquireVM and
\* their releaseVM at the same time.
C4_AtMostNRunning ==
    Cardinality(Holders) <= PoolSize

\* C5: while all PoolSize handles are held and shutdown has not been
\* signalled, a caller waiting in acquireVM obtains a handle only by a step
\* in which a holder releases its handle; and whenever handles are in the
\* pool while callers wait in acquireVM, a handle is eventually taken from
\* the pool (or no caller waits any more, or shutdown is signalled).
C5_BlockedThenProceeds ==
    /\ [][\A k \in Calls :
             (/\ ~stopCh
              /\ Cardinality(Holders) = PoolSize
              /\ k \in Waiting
              /\ \A j \in Holders : pc'[j] \in {"granted", "select"})
                 => pc'[k] \notin {"granted", "select"}]_vars
    /\ \A n \in 1..PoolSize :
          (~stopCh /\ ~crashed /\ Waiting # {} /\ Len(vmPool) = n)
              ~> (stopCh \/ crashed \/ Waiting = {} \/ Len(vmPool) < n)

\* C5 witness: a caller waits in acquireVM while the handle has been
\* released by a holder and is back in the pool.
C5_Witness ==
    /\ ~stopCh /\ ~crashed
    /\ Waiting # {}
    /\ vmPool # << >>
    /\ \E j \in Calls : pc[j] = "returned" /\ returned["success"] = 1

\* C6: once Serve has returned and while shutdown has not been signalled,
\* whenever no call of execute is in flight the pool holds exactly PoolSize
\* handles.
C6_Quiescence ==
    (Served /\ ~stopCh /\ \A k \in Calls : ~InFlight(k)) => Len(vmPool) = PoolSize

\* C6 witness: before shutdown, every call has returned, one of them with a
\* timeout and one with an acquisition failure or a script error.
C6_Witness ==
    /\ ~stopCh /\ ~crashed
    /\ \A k \in Calls : pc[k] = "returned"
    /\ returned["timeout"] >= 1
    /\ returned["error"] >= 1

\* The sum of a counter over its labels.
Total(c) == c[""] + c["success"] + c["error"] + c["timeout"]

\* C7: every call of execute that has returned has incremented
\* executionsTotal exactly once, under the label of the outcome it returned,
\* which is one of success, error and timeout.
C7_OneOutcomeOneCount ==
    /\ \A l \in Labels : executionsTotal[l] = returned[l]
    /\ executionsTotal[""] = 0
    /\ Total(executionsTotal) = Cardinality({ k \in Calls : pc[k] = "returned" })

\* C7 witness: two calls have returned, one counted as timeout and one as
\* success.
C7_Witness ==
    /\ executionsTotal["timeout"] = 1
    /\ executionsTotal["success"] = 1

\* C8: an execution that holds a handle and whose deadline has fired
\* eventually returns to its caller.
C8_ReturnsAfterDeadline ==
    \A k \in Calls :
        (pc[k] = "select" /\ execCtx[k] = "deadline") ~> (pc[k] = "returned")

\* C9: when the deadline fired before the script goroutine delivered, and
\* the script goroutine then delivers the fault raised by the injected
\* interrupt, the execution is not counted as a script error.
C9_InterruptFaultIsTimeout ==
    [][\A k \in Calls :
          (Returning(k) /\ first[k] = "deadline"
             /\ errCh[k] = "panic: execution timeout")
              => returned'["error"] = returned["error"]]_vars

\* C10: when the script goroutine delivered its value or its fault before
\* the deadline fired, the outcome is not timeout.
C10_FirstSignalWins ==
    [][\A k \in Calls :
          (Returning(k) /\ first[k] \in {"result", "fault"}
             /\ execCtx[k] = "deadline")
              => returned'["timeout"] = returned["timeout"]]_vars

\* The step by which call k leaves execute, whatever the outcome.
Leaving(k) == pc[k] \in {"acquire", "parked", "select"} /\ pc'[k] = "returned"

\* The step by which execute call k returns an outcome counted under label l.
ReturnsAs(k, l) == Leaving(k) /\ returned'[l] = returned[l] + 1

\* No other call than k is inside execute or has a watchdog running.
Alone(k) == \A j \in Calls \ {k} : ~InFlight(j) /\ ~WatchdogRunning(j)

\* C11: when an execution has returned the timeout outcome while its script
\* goroutine is still running, its watchdog goroutine does not end without
\* sending the interrupt on the handle's Interrupt channel.
C11_WatchdogInjects ==
    [][\A k \in Calls :
          (/\ pc[k] = "returned" /\ resp[k].Error = "execution timeout"
           /\ ScriptRunning(k) /\ vm[k] # NilVM
           /\ WatchdogRunning(k) /\ wd'[k] = "idle" /\ ~crashed')
              => interrupt'[vm[k]] = interrupt[vm[k]] + 1]_vars

\* C12: when the script goroutine has delivered a fault (a throw or a
\* recovered panic), the deadline has not fired and no other call is in
\* flight, the execution ends with the script-error outcome, the process
\* does not crash, and the handle is back in the pool or discarded.
C12_FaultIsolated ==
    [][\A k \in Calls :
          (/\ pc[k] = "select" /\ errCh[k] \in {"throw", "panic: nil dereference"}
           /\ execCtx[k] = "live" /\ Alone(k)
           /\ pc'[k] # "select")
              => /\ ~crashed'
                 /\ pc'[k] = "returned"
                 /\ resp'[k].Error = "execution error"
                 /\ \/ vm[k] \in Range(vmPool')
                    \/ vm[k] \in discarded'
                    \/ vm[k] = NilVM]_vars

\* C13: the step of rpc.Execute that rejects empty code returns the error
\* and leaves the pool, the gauges, the status counters (recorded together
\* with the duration histogram) and the wait group unchanged.
C13_ValidationTouchesNothing ==
    [][\A k \in Calls :
          (pc[k] = "idle" /\ pc'[k] = "rejected")
              => /\ resp'[k].err = "code is required"
                 /\ UNCHANGED << vmPool, poolClosed, discarded, interrupt, wg,
                                 poolAvailable, activeExecutions, executionsTotal,
                                 returned >>]_vars

\* C13 witness: a call has been rejected for empty code while another call
\* holds the handle, the pool-available gauge standing at PoolSize - 1.
C13_Witness ==
    /\ ~crashed
    /\ \E k \in Calls : pc[k] = "rejected" /\ resp[k].err = "code is required"
    /\ \E j \in Calls : pc[j] = "select"
    /\ poolAvailable = PoolSize - 1

\* C14: a call of execute that returns an outcome counted as error (script
\* fault or acquisition failure) or as timeout makes rpc.Execute return nil
\* with a non-empty resp.Error.
C14_FailuresInResponse ==
    [][\A k \in Calls :
          (ReturnsAs(k, "error") \/ ReturnsAs(k, "timeout"))
              => resp'[k].err = "nil" /\ resp'[k].Error # ""]_vars

\* C14 witness: one call has returned a timeout and another one an
\* acquisition failure.
C14_Witness ==
    \E k, j \in Calls :
        /\ pc[k] = "returned" /\ resp[k].Error = "execution timeout"
        /\ pc[j] = "returned" /\ resp[j].Error = "failed to acquire VM"
        /\ returned["timeout"] = 1 /\ returned["error"] = 1

\* C15: a call rejected for empty code has a non-empty resp.Error and
\* returned no call-level error.
C15_ValidationOnlyInResponse ==
    \A k \in Calls :
        pc[k] = "rejected" => resp[k].Error # "" /\ resp[k].err = "nil"

\* C16: in the response of every finished call, Error is empty exactly when
\* execute returned success; Result is the exported value on success and
\* null otherwise (a rejected call included).
C16_ErrorIffNotSuccess ==
    /\ [][\A k \in Calls :
             Leaving(k) =>
                 /\ resp'[k].Error = "" <=> ReturnsAs(k, "success")
                 /\ ReturnsAs(k, "success") => resp'[k].Result = "value"
                 /\ ~ReturnsAs(k, "success") => resp'[k].Result = "null"]_vars
    /\ [][\A k \in Calls :
             (pc[k] = "idle" /\ pc'[k] = "rejected")
                 => resp'[k].Error # "" /\ resp'[k].Result = "null"]_vars

\* C16 witness: one call has returned a value and another one a script
\* error.
C16_Witness ==
    \E k, j \in Calls :
        /\ pc[k] = "returned" /\ resp[k].Result = "value" /\ resp[k].Error = ""
        /\ pc[j] = "returned" /\ resp[j].Error = "execution error"

\* C17: the response of every finished call, rejected or returned by
\* execute, carries the request's request_id and the elapsed duration.
C17_EchoesRequestID ==
    \A k \in Calls :
        pc[k] \in {"rejected", "returned"}
            => resp[k].RequestID = RequestIDOf(k) /\ resp[k].DurationMs = "elapsed"

\* C18: a call that entered acquireVM after close(p.stopCh) obtains no
\* handle and starts no script goroutine.
C18_NoAcquireAfterStop ==
    [][\A k \in Calls :
          (pc[k] = "acquire" /\ late[k])
              => pc'[k] # "select" /\ ~ScriptRunning(k)']_vars

\* The caller was blocked in acquireVM's select when close(p.stopCh) ran and
\* has not run since.
BlockedAtStop(k) == pc[k] = "parked" /\ stopCh

\* C19: a caller blocked in acquireVM when shutdown is signalled leaves
\* acquireVM only with the acquisition failure (unless the process ends
\* first), and it does not stay blocked.
C19_BlockedCallersFail ==
    /\ [][\A k \in Calls :
             (BlockedAtStop(k) /\ pc'[k] # "parked" /\ ~crashed')
                 => pc'[k] = "returned" /\ resp'[k].Error = "failed to acquire VM"]_vars
    /\ \A k \in Calls : BlockedAtStop(k) ~> (pc[k] # "parked")

\* C19 witness: shutdown has been signalled while a caller is blocked in
\* acquireVM and another call holds the handle.
C19_Witness ==
    /\ ~crashed
    /\ \E k \in Calls : BlockedAtStop(k) /\ ~ctxDone[k]
    /\ \E j \in Calls : pc[j] = "select"

\* C20: once shutdown has been signalled the number of handles in the pool
\* channel never increases.
C20_NoRequeueAfterStop ==
    [][stopCh => Len(vmPool') <= Len(vmPool)]_vars

\* The calls waiting for a handle or about to return from acquireVM.
Acquiring(k) == pc[k] \in {"acquire", "parked", "granted"}

\* C21: Stop returns: once its ctx has expired its select can take the
\* ctx.Done() case whatever the executions do, with no execution in flight
\* it can take the done case before that, and a Stop that waits eventually
\* has returned.
C21_StopReturns ==
    /\ [](stopPc = "expired" => ENABLED StopTimeout)
    /\ []((stopPc \in {"waiting", "expired"} /\ wg = 0) => ENABLED StopDrained)
    /\ (stopPc \in {"waiting", "expired"}) ~> (stopPc = "stopped")

\* C21 witness: Stop has returned while an execution is still in flight.
C21_Witness ==
    /\ ~crashed
    /\ stopPc = "stopped"
    /\ \E k \in Calls : pc[k] = "select" /\ ScriptRunning(k)

\* C22: the step of Stop that closes the pool is taken only when no call of
\* execute is in flight (p.wg is zero) or the grace period has elapsed.
C22_TeardownAfterDrainOrGrace ==
    [][(~poolClosed /\ poolClosed' /\ ~crashed')
          => \/ wg = 0 /\ \A k \in Calls : ~InFlight(k)
             \/ stopPc = "expired"]_vars

\* C22 witness: Stop has closed the pool after the call that was in flight
\* at the signal discarded its handle and returned.
C22_Witness ==
    /\ ~crashed
    /\ poolClosed
    /\ discarded # {}
    /\ \A k \in Calls : ~InFlight(k)
    /\ \E k \in Calls : pc[k] = "returned"

\* C23: the step by which a call fails in acquireVM returns the acquisition
\* failure counted as error, leaves the pool and the interrupt channels
\* unchanged, has started neither goroutine, holds no handle, and adds back
\* to poolAvailable the one that the entry into execute had subtracted.
C23_AcquireFailureIsClean ==
    /\ [][\A k \in Calls :
             (pc[k] \in {"acquire", "parked"} /\ pc'[k] = "returned")
                 => /\ resp'[k].Error = "failed to acquire VM"
                    /\ executionsTotal'["error"] = executionsTotal["error"] + 1
                    /\ UNCHANGED << vmPool, discarded, interrupt >>
                    /\ script'[k] = "idle" /\ wd'[k] = "idle" /\ vm'[k] = NilVM
                    /\ poolAvailable' = poolAvailable + 1]_vars
    /\ [][\A k \in Calls :
             (pc[k] = "idle" /\ pc'[k] = "acquire")
                 => poolAvailable' = poolAvailable - 1]_vars

\* C23 witness: a caller whose ctx was cancelled has returned the
\* acquisition failure while another call holds the handle.
C23_Witness ==
    /\ ~crashed /\ ~stopCh
    /\ \E k \in Calls : pc[k] = "returned" /\ resp[k].Error = "failed to acquire VM"
    /\ \E j \in Calls : pc[j] = "select"
    /\ poolAvailable = PoolSize - 1

\* C24: no deadline runs while a call is in acquireVM: its execCtx does not
\* exist yet, it never leaves acquireVM with the timeout outcome, and when
\* it has the handle (its ctx not cancelled) its execCtx starts live.
C24_DeadlineStartsAfterAcquire ==
    /\ [](\A k \in Calls : Acquiring(k) => execCtx[k] = "none")
    /\ [][\A k \in Calls :
             (Acquiring(k) /\ pc'[k] = "returned")
                 => returned'["timeout"] = returned["timeout"]]_vars
    /\ [][\A k \in Calls :
             (Acquiring(k) /\ pc'[k] = "select" /\ ~ctxDone[k])
                 => execCtx'[k] = "live"]_vars

\* C24 witness: a caller is blocked in acquireVM while the deadline of the
\* call holding the handle has already fired.
C24_Witness ==
    /\ ~crashed
    /\ \E k \in Calls : pc[k] = "parked" /\ execCtx[k] = "none"
    /\ \E j \in Calls : pc[j] = "select" /\ execCtx[j] = "deadline"

\* C25: the execCtx of an execution that is running becomes Done only
\* through its own deadline, not through the caller's ctx.
C25_CancelLeavesRunning ==
    [][\A k \in Calls :
          (pc[k] = "select" /\ execCtx[k] = "live" /\ pc'[k] = "select")
              => execCtx'[k] \in {"live", "deadline"}]_vars

\* C26: when the scripts of different interpreters have each called
\* metrics.increment once and only increment has been called for a name,
\* then once the calls have returned the counter registered under the name
\* has counted every one of them.
C26_IncrementsAccumulate ==
    \A n \in MetricNames :
        (/\ \A b \in Bindings : ops[b] <= 1 /\ mcall[b].at = "idle"
         /\ attempted["gauge"][n] = 0 /\ attempted["histogram"][n] = 0
         /\ attempted["counter"][n] > 0)
            => /\ registry[n] # NilVec
               /\ samples[registry[n]] = attempted["counter"][n]

\* C27: a getOrCreateCounter / Gauge / Histogram call for a name under
\* which a collector of that kind is already registered returns that
\* collector, whether it finds it in its own map or through Register.
C27_GetOrCreateByName ==
    [][\A b \in Bindings :
          LET n == mcall'[b].name IN
          (/\ mcall[b].at \in {"idle", "register"} /\ mcall'[b].at = "with"
           /\ registry[n] # NilVec /\ registry[n].kind = mcall'[b].kind)
              => mcall'[b].vec = registry[n]]_vars

\* C28: when Serve has returned and no call has been made, the pool holds
\* the PoolSize distinct handles; no call holds a handle before Serve has
\* returned; the pool never holds more than PoolSize handles.
C28_PoolPopulated ==
    /\ (Served /\ ~stopCh /\ \A k \in Calls : pc[k] \in {"idle", "rejected"})
          => Len(vmPool) = PoolSize /\ Range(vmPool) = Handles
    /\ ~Served => \A k \in Calls : pc[k] = "idle" /\ vm[k] = NilVM
    /\ Len(vmPool) <= PoolSize

\* C28 witness: Serve has just returned with the pool full.
C28_Witness ==
    /\ stopPc = "serving"
    /\ Len(vmPool) = PoolSize
    /\ \A k \in Calls : pc[k] = "idle"

\* C29: the watchdog goroutine of an execution that has returned (and so
\* released its handle) sends nothing on that handle's Interrupt channel:
\* it has ended by then, or ends without the send.
C29_NoInterruptAfterRelease ==
    [][\A k \in Calls :
          (/\ pc[k] = "returned" /\ vm[k] # NilVM
           /\ WatchdogRunning(k) /\ wd'[k] = "idle" /\ ~crashed')
              => interrupt'[vm[k]] = interrupt[vm[k]]]_vars

\* C30: the active-executions gauge equals the number of executions that
\* hold a handle.
C30_ActiveCountsHolders ==
    activeExecutions = Cardinality(Holders)

\* C31: the timeout rpc.Execute passes to execute is req.TimeoutMs
\* milliseconds when that is greater than 0, else cfg.DefaultTimeout
\* milliseconds, and it is positive.
C31_TimeoutSelection ==
    lastTimeout.set =>
        LET ms == IF lastTimeout.TimeoutMs > 0 THEN lastTimeout.TimeoutMs
                                               ELSE cfg.DefaultTimeout
        IN /\ lastTimeout.timeout = ms * Millisecond
           /\ lastTimeout.timeout > 0

\* C32: when Init has returned nil the plugin section was present, every
\* field of p.cfg is the configured value, or its default where the key was
\* zero, and lies in its valid range; a configuration of zero keys is
\* accepted; Init fails when the section is absent; after a failed Init no
\* pool exists, and a pool that exists has the configured capacity.
C32_InitValidates ==
    LET keys == cfgInput.keys IN
    /\ initErr = "nil" =>
          /\ cfgInput.Has
          /\ cfg.PoolSize = (IF keys.PoolSize = 0 THEN 4 ELSE keys.PoolSize)
          /\ cfg.MaxMemoryMB = (IF keys.MaxMemoryMB = 0 THEN 512 ELSE keys.MaxMemoryMB)
          /\ cfg.DefaultTimeout
                = (IF keys.DefaultTimeout = 0 THEN 30000 ELSE keys.DefaultTimeout)
          /\ cfg.PoolSize >= 1 /\ cfg.PoolSize <= 100
          /\ cfg.DefaultTimeout >= 100
          /\ cfg.MaxMemoryMB >= 64
    /\ (initErr # "not called" /\ cfgInput.Has /\ cfgInput.Unmarshals /\ keys = NilConfig)
          => initErr = "nil"
    /\ (initErr # "not called" /\ ~cfgInput.Has) => initErr = "plugin not configured"
    /\ initErr # "nil" => poolCap = 0
    /\ poolCap > 0 => poolCap = cfg.PoolSize

\* C32 witness: Init has succeeded on a section without keys, p.cfg holds
\* the three defaults, and Serve has made a pool of four.
C32_Witness ==
    /\ initErr = "nil"
    /\ cfgInput.keys = NilConfig
    /\ cfg = [PoolSize |-> 4, MaxMemoryMB |-> 512, DefaultTimeout |-> 30000]
    /\ poolCap = 4

\* C33: a metrics.increment call for a name under which the calling
\* binding instance has registered its counter, with whatever label keys,
\* increments the counter and returns without a panic.
C33_IncrementAnyLabels ==
    [][\A b \in Bindings :
          (/\ mcall[b].at = "with" /\ mcall[b].kind = "counter"
           /\ userCounters[b][mcall[b].name] # NilVec
           /\ mcall'[b].at = "idle")
              => /\ ret'[b] = "applied"
                 /\ samples'[registry[mcall[b].name]]
                       = samples[registry[mcall[b].name]] + 1]_vars

\* C34: once Serve has returned, whenever no call of execute is in flight
\* the pool-available gauge equals the number of handles in the pool.
C34_GaugeMatchesPoolAtRest ==
    (Served /\ ~crashed /\ \A k \in Calls : ~InFlight(k))
        => poolAvailable = Len(vmPool)

\* C35: the pool-available gauge stays within 0..PoolSize.
C35_GaugeWithinRange ==
    poolAvailable \in 0..PoolSize

\* C36: whenever acquireVM hands a handle to a call, the Interrupt channel
\* of that handle is empty.
C36_NoStaleInterrupt ==
    [][\A k \in Calls :
          (pc[k] \in {"acquire", "granted"} /\ pc'[k] = "select" /\ vm'[k] # NilVM)
              => interrupt[vm'[k]] = 0]_vars

\* C37: an execution that was in flight when Stop closed the pool at the end
\* of the grace period, and that holds a handle, does not end the process
\* by its releaseVM when it leaves its outcome select.
C37_NoSendOnClosedPool ==
    [][\A k \in abandoned :
          (/\ pc[k] = "select" /\ vm[k] # NilVM
           /\ \A j \in Calls : Holding(j) => vm[j] # NilVM)
              => ~ReleasePanic(k)]_vars

\* C38: a call that acquireVM has let proceed holds one of the handles
\* created by Serve, never the nil handle.
C38_AcquiredHandleIsReal ==
    \A k \in Calls : Holding(k) => vm[k] \in Handles

\* C39: no watchdog goroutine is left blocked in its send on a full
\* Interrupt channel of a handle on which no script will run any more (the
\* pool is closed, the handle is not in it, no call holds it and no script
\* goroutine runs on it).
C39_NoTaskBlocksForever ==
    \A k \in Calls :
        ~(/\ wd[k] = "blocked" /\ ~crashed /\ poolClosed
          /\ vm[k] \notin Range(vmPool)
          /\ \A j \in Calls : vm[j] = vm[k] => ~Holding(j) /\ ~ScriptRunning(j))

\* The number of times handle h is in the pool channel.
InPool(h) == Cardinality({ i \in 1..Len(vmPool) : vmPool[i] = h })

\* The calls that hold handle h.
HoldersOf(h) == { k \in Calls : Holding(k) /\ vm[k] = h }

\* C40: once Serve has returned, each handle is in exactly one place: once
\* in the pool, held by one call, or discarded; the pool holds at most
\* PoolSize handles, and it has room whenever a call holds a handle.
C40_EachHandleInOnePlace ==
    (Served /\ ~crashed) =>
        /\ \A h \in Handles :
              InPool(h) + Cardinality(HoldersOf(h))
                 + (IF h \in discarded THEN 1 ELSE 0) = 1
        /\ Len(vmPool) <= PoolSize
        /\ (\E k \in Calls : Holding(k) /\ vm[k] # NilVM) => Len(vmPool) < PoolSize

\* C40 witness: after Stop has closed the pool, an execution it abandoned
\* still holds its handle, which is neither in the pool nor discarded.
C40_Witness ==
    /\ ~crashed /\ poolClosed
    /\ \E k \in abandoned : Holding(k) /\ vm[k] \in Handles
                               /\ InPool(vm[k]) = 0 /\ vm[k] \notin discarded

====
